---------------------------- MODULE Spec2Model ----------------------------
(***************************************************************************)
(* A model of the web radio relay in src/server.py: the RadioStream        *)
(* object (track pools, reshuffle timer, listener set and its lock), the   *)
(* playback task (generate_audio / _play_track / broadcast), the encoder   *)
(* subprocess it supervises, and one stream_handler task per connection.   *)
(*                                                                         *)
(* The program runs on one asyncio event loop: a task runs without         *)
(* interruption from one await that suspends to the next.  The playback    *)
(* task's position (playPc) and each handler's position (hPc) name the     *)
(* await at which the task is suspended.                                   *)
(*                                                                         *)
(* Spec is the whole relay.  Its parts are checked under narrower          *)
(* specifications built from the same actions: SpecCast (the relay with a  *)
(* stocked music directory: fan-out, lock and handlers), SpecListen (the   *)
(* same during the first hour, with FairSpecListen stating the scheduling  *)
(* of the tasks at the lock), SpecShutdown (SpecCast with the playback     *)
(* task cancelled at any await), SpecPipe (the relay while nobody listens: *)
(* selection, pipeline and encoder, with FairSpecPipe stating its          *)
(* scheduling), SpecApi (register_client and unregister_client called      *)
(* directly on any listener set) and SpecShuffle (the shuffle of the pools *)
(* called directly on any catalog).                                        *)
(***************************************************************************)
EXTENDS Integers, Sequences, FiniteSets, TLC

(* ------------------------------ bounds -------------------------------- *)

\* chunks the encoders produce in total over a run
MaxChunks == 2
\* encoder processes spawned in a run
MaxTracks == 2
\* chunks the stdout pipe buffers
MaxPipe == 1
\* the latest clock reading, in hours since construction
MaxClock == 7
\* nested _next_track calls the interpreter allows before RecursionError
RecursionLimit == 2

(* --------------------------- program constants ------------------------ *)

\* ALBUM_TRACK_CHANCE = 0.1, in percent
ALBUM_TRACK_CHANCE == 10
\* SORT_INTERVAL_HOURS
SORT_INTERVAL_HOURS == 7
\* max_empty_reads, local to _play_track
max_empty_reads == 10

(* ------------------------------ universes ----------------------------- *)

\* *.mp3 files the music directory may hold at its top level
GeneralFiles == {"g1", "g2"}
\* *.mp3 files its sub-folders may hold
AlbumFiles == {"a1"}
\* current_track before the first selection
NoTrack == "None"
\* process.returncode while the exit has not been collected
NoCode == "None"
\* the connections (one StreamResponse and one stream_handler task each)
Handlers == {"h1", "h2"}
\* the playback task, as an owner or waiter of the lock
PlayTask == "play"
\* values random.random() returns, in percent
Draws == {9, 10}
\* hours that pass between two selections
Elapsed == {0, SORT_INTERVAL_HOURS - 1, SORT_INTERVAL_HOURS}

VARIABLES
    \* RadioStream fields
    tracks, album_tracks, last_shuffle_time, current_track, clients,
    \* asyncio.Lock: its flag and its FIFO of waiting tasks
    locked, waiters,
    \* the clock datetime.now() reads
    now,
    \* the playback task
    playPc, playErr, depth, draw, consecutive_empty_reads, chunk,
    iterLeft, to_remove, curClient,
    \* the encoder subprocess
    procState, exitStatus, returncode, pipe, termSent,
    \* the stream_handler tasks
    hPc,
    \* bookkeeping of the run: what was read, written and decided
    nread, nplayed, sink, regAt, bcAtCall, bcAtEntry, bcWrites,
    failedBefore, outcome,
    \* bookkeeping of direct calls of register_client / unregister_client
    apiPrev, apiOp,
    \* whether the playback task has been cancelled, and what became of it
    cancelled

schedVars == <<tracks, album_tracks, last_shuffle_time, current_track, now,
               depth, draw>>
lockVars == <<locked, waiters>>
apiVars == <<apiPrev, apiOp>>
shutVars == <<cancelled>>
procVars == <<procState, exitStatus, returncode, pipe, termSent>>
castVars == <<iterLeft, to_remove, curClient, bcAtCall, bcAtEntry, bcWrites,
              failedBefore>>
vars == <<tracks, album_tracks, last_shuffle_time, current_track, clients,
          locked, waiters, now, playPc, playErr, depth, draw,
          consecutive_empty_reads, chunk, iterLeft, to_remove, curClient,
          procState, exitStatus, returncode, pipe, termSent, hPc, nread,
          nplayed, sink, regAt, bcAtCall, bcAtEntry, bcWrites, failedBefore,
          outcome, apiPrev, apiOp, cancelled>>

(* ------------------------------ helpers ------------------------------- *)

Range(s) == {s[i] : i \in DOMAIN s}

\* the lists over S that hold every member of S once
Orderings(S) ==
    {s \in [1..Cardinality(S) -> S] : Range(s) = S}

\* a shuffle that draws each place anew from the list (random.choices)
ShufflesWithReplacement(s) == [1..Len(s) -> Range(s)]

\* random.shuffle(s): every rearrangement of the list s
Shuffles(s) ==
    {t \in [1..Len(s) -> Range(s)] :
        \A x \in Range(s) :
            Cardinality({i \in DOMAIN t : t[i] = x})
                = Cardinality({i \in DOMAIN s : s[i] = x})}

\* random.choice(s): any element of the list s
Choices(s) == Range(s)

ZeroWrites == [h \in Handlers |-> 0]

(* --------------------------- TrackCatalog ----------------------------- *)

\* _load_tracks: the lists a directory holding general files g and album
\* files a is loaded into, glob order then _shuffle_tracks
LoadResults(g, a) ==
    {<<tr, al>> \in
        (UNION {Shuffles(l) : l \in Orderings(g)})
            \X (UNION {Shuffles(l) : l \in Orderings(a)}) : TRUE}

\* every directory content _load_tracks may find
Loads ==
    UNION {LoadResults(g, a) : <<g, a>> \in (SUBSET GeneralFiles) \X (SUBSET AlbumFiles)}

\* the reshuffle test of _next_track at clock reading t
ShuffleDue(t) == t - last_shuffle_time >= SORT_INTERVAL_HOURS

\* a selection that forgets the draw: an album track whenever there is one
PickAlbumFirst(d, tr, al) ==
    IF al # <<>> THEN "album"
    ELSE IF tr # <<>> THEN "general"
    ELSE "reload"

\* which pool _next_track picks from, given the draw d and the pools:
\* "album", "general", or "reload" when it re-loads and calls itself
Pick(d, tr, al) ==
    IF d < ALBUM_TRACK_CHANCE /\ al # <<>> THEN "album"
    ELSE IF tr # <<>> THEN "general"
    ELSE "reload"

(* ------------------------------ the lock ------------------------------ *)

\* a lock that is taken whenever it is unlocked, queue or no queue
LockFreeBarging == ~locked

\* asyncio.Lock.acquire returns at once: unlocked and nobody queued
LockFree == ~locked /\ waiters = <<>>

\* the task t is the waiter that release() woke
Woken(t) == ~locked /\ waiters # <<>> /\ Head(waiters) = t

(* ---------------------------- Broadcaster ----------------------------- *)

\* a register_client that tells a second registration apart from the first
\* (a list of clients, or a toggle)
RegisterToggle(S, l) == IF l \in S THEN S \ {l} ELSE S \cup {l}

\* register_client's critical section
RegisterOp(S, l) == S \cup {l}

\* an unregister_client that removes nothing
UnregisterNone(S, l) == S

\* unregister_client's critical section
UnregisterOp(S, l) == S \ {l}

\* a broadcast that forgets the clients it noted
DiscardNone(S, R) == S

\* broadcast's last loop: every client of to_remove is discarded
Discard(S, R) == S \ R

\* a broadcast that loops over the set as it was when broadcast was called,
\* not as it is once the lock is held
BroadcastEnterStale ==
    /\ locked' = TRUE
    /\ playPc' = "bc_iter"
    /\ iterLeft' = IF playPc = "lock_wait" THEN bcAtCall ELSE clients
    /\ to_remove' = {}
    /\ bcAtEntry' = clients
    /\ bcWrites' = ZeroWrites

\* broadcast has the lock: the for loop starts over self.clients
BroadcastEnter ==
    /\ locked' = TRUE
    /\ playPc' = "bc_iter"
    /\ iterLeft' = clients
    /\ to_remove' = {}
    /\ bcAtEntry' = clients
    /\ bcWrites' = ZeroWrites

\* broadcast(chunk) is called: async with self.lock
BroadcastCall ==
    /\ bcAtCall' = clients
    /\ IF LockFree
         THEN BroadcastEnter /\ waiters' = waiters
         ELSE /\ waiters' = Append(waiters, PlayTask)
              /\ playPc' = "lock_wait"
              /\ UNCHANGED <<locked, iterLeft, to_remove, bcAtEntry, bcWrites>>

(* ------------------------------- Init --------------------------------- *)

\* RadioStream.__init__ has run, start_radio has created the playback task
InitRadio ==
    /\ \E ld \in Loads : tracks = ld[1] /\ album_tracks = ld[2]
    /\ last_shuffle_time = 0
    /\ now = 0
    /\ current_track = NoTrack
    /\ locked = FALSE
    /\ waiters = <<>>
    /\ playPc = "next_track"
    /\ playErr = "none"
    /\ depth = 0
    /\ draw = 0
    /\ consecutive_empty_reads = 0
    /\ chunk = 0
    /\ iterLeft = {}
    /\ to_remove = {}
    /\ curClient = "none"
    /\ procState = "none"
    /\ exitStatus = NoCode
    /\ returncode = NoCode
    /\ pipe = 0
    /\ termSent = FALSE
    /\ hPc = [h \in Handlers |-> "idle"]
    /\ nread = 0
    /\ nplayed = 0
    /\ sink = [h \in Handlers |-> <<>>]
    /\ regAt = [h \in Handlers |-> 0]
    /\ bcAtCall = {}
    /\ bcAtEntry = {}
    /\ bcWrites = ZeroWrites
    /\ failedBefore = {}
    /\ outcome = "none"
    /\ apiPrev = {}
    /\ apiOp = <<"none", "none">>
    /\ cancelled = "none"

Init ==
    /\ InitRadio
    /\ clients = {}

(* ---------------------------- TrackScheduler -------------------------- *)

\* _next_track is synchronous: while it recurses no other task runs
MidSelection == playPc = "next_track" /\ depth > 0

\* one call of _next_track (generate_audio's call, or the call of itself):
\* reshuffle when due, then pick from a pool or re-load and recurse
NextTrackCall ==
    /\ playPc = "next_track"
    /\ depth < RecursionLimit
    /\ depth = 0 => nplayed < MaxTracks
    /\ \E e \in IF depth = 0 THEN Elapsed ELSE {0} :
       LET t1 == now + e
           due == ShuffleDue(t1)
       IN
       \E e2 \in IF due THEN {0, 1} ELSE {0},
          tr \in IF due THEN Shuffles(tracks) ELSE {tracks},
          al \in IF due THEN Shuffles(album_tracks) ELSE {album_tracks},
          d \in Draws :
        LET t2 == t1 + e2
            pk == Pick(d, tr, al)
        IN  /\ t2 <= MaxClock
            /\ now' = t2
            /\ last_shuffle_time' = IF due THEN t2 ELSE last_shuffle_time
            /\ draw' = d
            /\ outcome' = "none"
            /\ IF pk = "reload"
                 THEN /\ \E ld \in Loads :
                            tracks' = ld[1] /\ album_tracks' = ld[2]
                      /\ depth' = depth + 1
                      /\ UNCHANGED <<current_track, playPc>>
                 ELSE /\ tracks' = tr
                      /\ album_tracks' = al
                      /\ depth' = 0
                      /\ current_track' \in Choices(IF pk = "album" THEN al ELSE tr)
                      /\ playPc' = "spawn"
    /\ UNCHANGED <<apiVars, shutVars, clients, lockVars, playErr,
                   consecutive_empty_reads, chunk, procVars, castVars, hPc,
                   nread, nplayed, sink, regAt>>

\* the call that exceeds the interpreter's recursion limit: RecursionError
\* leaves _next_track and generate_audio, the playback task ends
NextTrackOverflow ==
    /\ playPc = "next_track"
    /\ depth >= RecursionLimit
    /\ playPc' = "dead"
    /\ playErr' = "RecursionError"
    /\ UNCHANGED <<apiVars, shutVars, schedVars, clients, lockVars, consecutive_empty_reads, chunk,
                   procVars, castVars, hPc, nread, nplayed, sink, regAt, outcome>>

(* -------------------------- TranscodePipeline ------------------------- *)

\* the finally block of _play_track up to its first await: terminate a
\* process whose exit has not been collected, then wait for it; a process
\* already gone either raises ProcessLookupError (skipping the wait) or
\* takes the signal silently; terminate() on a live process either sends
\* SIGTERM or raises (the error is logged and the wait is skipped)
Finally(why) ==
    /\ outcome' = why
    /\ IF returncode # NoCode
         THEN playPc' = "stderr" /\ termSent' = termSent
         ELSE IF procState = "exited"
                THEN playPc' \in {"stderr", "term_wait"} /\ termSent' = termSent
                ELSE \/ playPc' = "term_wait" /\ termSent' = TRUE
                     \/ playPc' = "stderr" /\ termSent' = termSent

\* the top of the while loop: leave it when the exit has been collected,
\* else await the next read
LoopTop ==
    IF returncode # NoCode
      THEN Finally(IF returncode = "0" THEN "completed" ELSE "crashed")
      ELSE playPc' = "read" /\ UNCHANGED <<outcome, termSent>>

\* an empty read or a timeout: count it, give the track up at the maximum
CountEmpty ==
    /\ consecutive_empty_reads' = consecutive_empty_reads + 1
    /\ IF consecutive_empty_reads + 1 >= max_empty_reads
         THEN Finally("stalled")
         ELSE LoopTop

\* create_subprocess_exec started the encoder; the loop awaits its output
SpawnOk ==
    /\ playPc = "spawn"
    /\ procState' = "running"
    /\ exitStatus' = NoCode
    /\ returncode' = NoCode
    /\ pipe' = 0
    /\ termSent' = FALSE
    /\ consecutive_empty_reads' = 0
    /\ nplayed' = nplayed + 1
    /\ playPc' = "read"
    /\ draw' = 0
    /\ UNCHANGED <<apiVars, shutVars, tracks, album_tracks, last_shuffle_time,
                   current_track, now, depth, clients, lockVars, playErr, chunk, castVars, hPc,
                   nread, sink, regAt, outcome>>

\* create_subprocess_exec raised (no such binary, no more processes): the
\* call is outside the try, the error leaves _play_track and generate_audio
SpawnFail ==
    /\ playPc = "spawn"
    /\ playPc' = "dead"
    /\ playErr' = "OSError"
    /\ outcome' = "spawn_failed"
    /\ UNCHANGED <<apiVars, shutVars, schedVars, clients, lockVars, consecutive_empty_reads, chunk,
                   procVars, castVars, hPc, nread, nplayed, sink, regAt>>

\* a read loop that forgets to reset the counter on a non-empty read
ReadChunkNoReset ==
    /\ playPc = "read"
    /\ pipe > 0
    /\ pipe' = pipe - 1
    /\ nread' = nread + 1
    /\ chunk' = nread + 1
    /\ consecutive_empty_reads' = consecutive_empty_reads
    /\ BroadcastCall
    /\ UNCHANGED <<apiVars, shutVars, schedVars, clients, playErr, curClient,
                   failedBefore, procState, exitStatus, returncode, termSent,
                   hPc, nplayed, sink, regAt, outcome>>

\* read returned bytes: reset the counter and broadcast them
ReadChunk ==
    /\ playPc = "read"
    /\ pipe > 0
    /\ pipe' = pipe - 1
    /\ nread' = nread + 1
    /\ chunk' = nread + 1
    /\ consecutive_empty_reads' = 0
    /\ BroadcastCall
    /\ UNCHANGED <<apiVars, shutVars, schedVars, clients, playErr, curClient, failedBefore,
                   procState, exitStatus, returncode, termSent, hPc, nplayed,
                   sink, regAt, outcome>>

\* read returned b'': the encoder closed its output and nothing is buffered
ReadEmpty ==
    /\ playPc = "read"
    /\ pipe = 0
    /\ procState = "exited"
    /\ CountEmpty
    /\ UNCHANGED <<apiVars, shutVars, schedVars, clients, lockVars, playErr, chunk, castVars,
                   procState, exitStatus, returncode, pipe, hPc, nread, nplayed,
                   sink, regAt>>

\* wait_for gave up after 5 seconds without output
ReadTimeout ==
    /\ playPc = "read"
    /\ pipe = 0
    /\ procState \in {"running", "hung"}
    /\ CountEmpty
    /\ UNCHANGED <<apiVars, shutVars, schedVars, clients, lockVars, playErr, chunk, castVars,
                   procState, exitStatus, returncode, pipe, hPc, nread, nplayed,
                   sink, regAt>>

\* process.wait() returns: the exit has been collected
TermWaitDone ==
    /\ playPc = "term_wait"
    /\ returncode # NoCode
    /\ playPc' = "stderr"
    /\ UNCHANGED <<apiVars, shutVars, schedVars, clients, lockVars, playErr,
                   consecutive_empty_reads, chunk, castVars, procVars, hPc,
                   nread, nplayed, sink, regAt, outcome>>

\* a _play_track that returns without reading stderr to its end
StderrReadEarly ==
    /\ playPc = "stderr"
    /\ playPc' = "next_track"
    /\ procState' = "none"
    /\ exitStatus' = NoCode
    /\ returncode' = NoCode
    /\ pipe' = 0
    /\ termSent' = FALSE
    /\ UNCHANGED <<apiVars, shutVars, schedVars, clients, lockVars, playErr,
                   consecutive_empty_reads, chunk, castVars, hPc, nread,
                   nplayed, sink, regAt, outcome>>

\* process.stderr.read() returns at end of file, which the pipe reaches when
\* the encoder has exited; _play_track returns and generate_audio loops, or
\* the CancelledError the finally block interrupted is raised again and the
\* playback task ends
StderrRead ==
    /\ playPc = "stderr"
    /\ procState = "exited"
    /\ IF cancelled = "raised"
         THEN playPc' = "dead" /\ playErr' = "CancelledError"
         ELSE playPc' = "next_track" /\ playErr' = playErr
    /\ procState' = "none"
    /\ exitStatus' = NoCode
    /\ returncode' = NoCode
    /\ pipe' = 0
    /\ termSent' = FALSE
    /\ UNCHANGED <<apiVars, shutVars, schedVars, clients, lockVars,
                   consecutive_empty_reads, chunk, castVars, hPc, nread,
                   nplayed, sink, regAt, outcome>>

(* ----------------------------- the encoder ---------------------------- *)

\* the encoder writes a chunk to its stdout pipe
EncoderWrite ==
    /\ procState = "running"
    /\ pipe < MaxPipe
    /\ nread + pipe < MaxChunks
    /\ pipe' = pipe + 1
    /\ UNCHANGED <<apiVars, shutVars, schedVars, clients, lockVars, playPc, playErr,
                   consecutive_empty_reads, chunk, castVars, procState,
                   exitStatus, returncode, termSent, hPc, nread, nplayed, sink,
                   regAt, outcome>>

\* the encoder exits, with code 0 at the end of the file, 1 on an error,
\* -15 when SIGTERM ended it (codes are written as strings, beside "None");
\* its pipes reach end of file
EncoderExit ==
    /\ procState = "running"
    /\ \E code \in IF termSent THEN {"-15"} ELSE {"0", "1"} : exitStatus' = code
    /\ procState' = "exited"
    /\ UNCHANGED <<apiVars, shutVars, schedVars, clients, lockVars, playPc, playErr,
                   consecutive_empty_reads, chunk, castVars, returncode, pipe,
                   termSent, hPc, nread, nplayed, sink, regAt, outcome>>

\* the encoder wedges: it stays alive, writes nothing and takes no signal
EncoderHang ==
    /\ procState = "running"
    /\ procState' = "hung"
    /\ UNCHANGED <<apiVars, shutVars, schedVars, clients, lockVars, playPc, playErr,
                   consecutive_empty_reads, chunk, castVars, exitStatus,
                   returncode, pipe, termSent, hPc, nread, nplayed, sink, regAt,
                   outcome, apiPrev, apiOp>>

\* the event loop's child watcher collects the exit: process.returncode is
\* set; the event loop runs the watcher's callback while the playback task
\* is suspended in an await, not between two writes of broadcast's for loop
Reap ==
    /\ procState = "exited"
    /\ returncode = NoCode
    /\ playPc # "bc_iter"
    /\ returncode' = exitStatus
    /\ UNCHANGED <<apiVars, shutVars, schedVars, clients, lockVars, playPc, playErr,
                   consecutive_empty_reads, chunk, castVars, procState,
                   exitStatus, pipe, termSent, hPc, nread, nplayed, sink, regAt,
                   outcome, apiPrev, apiOp>>

(* ------------------------- broadcast's for loop ----------------------- *)

\* the playback task is in broadcast's critical section
InBroadcast == playPc \in {"bc_iter", "write"}

\* the waiting broadcast is given the lock
BroadcastWake ==
    /\ playPc = "lock_wait"
    /\ Woken(PlayTask)
    /\ waiters' = Tail(waiters)
    /\ BroadcastEnter
    /\ UNCHANGED <<apiVars, shutVars, schedVars, clients, playErr, consecutive_empty_reads, chunk,
                   curClient, bcAtCall, failedBefore, procVars, hPc, nread,
                   nplayed, sink, regAt, outcome>>

\* the for loop takes the next client and awaits client.write(chunk)
BroadcastWrite ==
    /\ playPc = "bc_iter"
    /\ \E c \in iterLeft :
        /\ curClient' = c
        /\ iterLeft' = iterLeft \ {c}
        /\ bcWrites' = [bcWrites EXCEPT ![c] = @ + 1]
    /\ playPc' = "write"
    /\ UNCHANGED <<apiVars, shutVars, schedVars, clients, lockVars, playErr,
                   consecutive_empty_reads, chunk, to_remove, bcAtCall,
                   bcAtEntry, failedBefore, procVars, hPc, nread, nplayed, sink,
                   regAt, outcome>>

\* the write went through: the listener's sink has the chunk
WriteOk ==
    /\ playPc = "write"
    /\ sink' = [sink EXCEPT ![curClient] = Append(@, chunk)]
    /\ playPc' = "bc_iter"
    /\ UNCHANGED <<apiVars, shutVars, schedVars, clients, lockVars, playErr,
                   consecutive_empty_reads, chunk, castVars, procVars, hPc,
                   nread, nplayed, regAt, outcome>>

\* a broadcast without the try around the write: the error leaves the for
\* loop and the with block, and _play_track's except clause ends the track
WriteFailRaises ==
    /\ playPc = "write"
    /\ locked' = FALSE
    /\ Finally("crashed")
    /\ UNCHANGED <<apiVars, shutVars, schedVars, clients, waiters, playErr,
                   consecutive_empty_reads, chunk, castVars, procState,
                   exitStatus, returncode, pipe, hPc, nread, nplayed, sink,
                   regAt>>

\* the write raised (ConnectionResetError, or any Exception): the client is
\* noted for removal and the loop goes on
WriteFail ==
    /\ playPc = "write"
    /\ to_remove' = to_remove \cup {curClient}
    /\ playPc' = "bc_iter"
    /\ UNCHANGED <<apiVars, shutVars, schedVars, clients, lockVars, playErr,
                   consecutive_empty_reads, chunk, iterLeft, curClient,
                   bcAtCall, bcAtEntry, bcWrites, failedBefore, procVars, hPc,
                   nread, nplayed, sink, regAt, outcome>>

\* a broadcast that returns without releasing the lock
BroadcastEndHolding ==
    /\ playPc = "bc_iter"
    /\ iterLeft = {}
    /\ clients' = Discard(clients, to_remove)
    /\ failedBefore' = failedBefore \cup to_remove
    /\ locked' = locked
    /\ to_remove' = {}
    /\ curClient' = "none"
    /\ bcAtCall' = {}
    /\ bcAtEntry' = {}
    /\ bcWrites' = ZeroWrites
    /\ LoopTop
    /\ UNCHANGED <<apiVars, shutVars, schedVars, waiters, playErr,
                   consecutive_empty_reads, chunk, iterLeft, procState,
                   exitStatus, returncode, pipe, hPc, nread, nplayed, sink,
                   regAt>>

\* the for loop is through: discard the failed clients, release the lock,
\* return to _play_track's loop
BroadcastEnd ==
    /\ playPc = "bc_iter"
    /\ iterLeft = {}
    /\ clients' = Discard(clients, to_remove)
    /\ failedBefore' = failedBefore \cup to_remove
    /\ locked' = FALSE
    /\ to_remove' = {}
    /\ curClient' = "none"
    /\ bcAtCall' = {}
    /\ bcAtEntry' = {}
    /\ bcWrites' = ZeroWrites
    /\ LoopTop
    /\ UNCHANGED <<apiVars, shutVars, schedVars, waiters, playErr, consecutive_empty_reads, chunk,
                   iterLeft, procState, exitStatus, returncode, pipe, hPc,
                   nread, nplayed, sink, regAt>>

(* ---------------------------- stream_handler -------------------------- *)

\* stream_handler returns: the connection is over, what it was sent is no
\* longer kept
Closed(h) ==
    /\ sink' = [sink EXCEPT ![h] = <<>>]
    /\ regAt' = [regAt EXCEPT ![h] = 0]

\* a register_client that adds without taking the lock
ConnectNoLock(h) ==
    /\ hPc[h] = "idle"
    /\ ~MidSelection
    /\ regAt' = [regAt EXCEPT ![h] = nread]
    /\ clients' = RegisterOp(clients, h)
    /\ hPc' = [hPc EXCEPT ![h] = "sleep"]
    /\ UNCHANGED <<apiVars, shutVars, schedVars, lockVars, playPc, playErr,
                   consecutive_empty_reads, chunk, castVars, procVars, nread,
                   nplayed, sink, outcome>>

\* a client connects: stream_handler calls register_client(response)
Connect(h) ==
    /\ hPc[h] = "idle"
    /\ ~MidSelection
    /\ regAt' = [regAt EXCEPT ![h] = nread]
    /\ IF LockFree
         THEN /\ clients' = RegisterOp(clients, h)
              /\ hPc' = [hPc EXCEPT ![h] = "sleep"]
              /\ waiters' = waiters
         ELSE /\ waiters' = Append(waiters, h)
              /\ hPc' = [hPc EXCEPT ![h] = "reg_wait"]
              /\ clients' = clients
    /\ UNCHANGED <<apiVars, shutVars, schedVars, locked, playPc, playErr,
                   consecutive_empty_reads, chunk, castVars, procVars, nread,
                   nplayed, sink, outcome>>

\* the client went away: the sleeping handler is cancelled and its finally
\* block calls unregister_client(response)
Disconnect(h) ==
    /\ hPc[h] = "sleep"
    /\ ~MidSelection
    /\ IF LockFree
         THEN /\ clients' = UnregisterOp(clients, h)
              /\ hPc' = [hPc EXCEPT ![h] = "done"]
              /\ waiters' = waiters
              /\ Closed(h)
         ELSE /\ waiters' = Append(waiters, h)
              /\ hPc' = [hPc EXCEPT ![h] = "unreg_wait"]
              /\ clients' = clients
              /\ UNCHANGED <<sink, regAt>>
    /\ UNCHANGED <<apiVars, shutVars, schedVars, locked, playPc, playErr,
                   consecutive_empty_reads, chunk, castVars, procVars, nread,
                   nplayed, outcome>>

\* a handler waiting for the lock is given it: its critical section runs
\* and the lock is released in the same step
HandlerWake(h) ==
    /\ hPc[h] \in {"reg_wait", "unreg_wait"}
    /\ Woken(h)
    /\ ~MidSelection
    /\ waiters' = Tail(waiters)
    /\ IF hPc[h] = "reg_wait"
         THEN /\ clients' = RegisterOp(clients, h)
              /\ hPc' = [hPc EXCEPT ![h] = "sleep"]
              /\ UNCHANGED <<sink, regAt>>
         ELSE /\ clients' = UnregisterOp(clients, h)
              /\ hPc' = [hPc EXCEPT ![h] = "done"]
              /\ Closed(h)
    /\ UNCHANGED <<apiVars, shutVars, schedVars, locked, playPc, playErr,
                   consecutive_empty_reads, chunk, castVars, procVars, nread,
                   nplayed, outcome>>

\* the client went away while register_client waited for the lock: the
\* await is outside the try, the handler ends without registering
CancelRegister(h) ==
    /\ hPc[h] = "reg_wait"
    /\ ~MidSelection
    /\ waiters' = SelectSeq(waiters, LAMBDA t : t # h)
    /\ hPc' = [hPc EXCEPT ![h] = "done"]
    /\ Closed(h)
    /\ UNCHANGED <<apiVars, shutVars, schedVars, clients, locked, playPc, playErr,
                   consecutive_empty_reads, chunk, castVars, procVars, nread,
                   nplayed, outcome>>

(* --------------------------- the whole relay -------------------------- *)

Next ==
    \/ NextTrackCall
    \/ NextTrackOverflow
    \/ SpawnOk
    \/ SpawnFail
    \/ ReadChunk
    \/ ReadEmpty
    \/ ReadTimeout
    \/ TermWaitDone
    \/ StderrRead
    \/ BroadcastWake
    \/ BroadcastWrite
    \/ WriteOk
    \/ WriteFail
    \/ BroadcastEnd
    \/ EncoderWrite
    \/ EncoderExit
    \/ EncoderHang
    \/ Reap
    \/ \E h \in Handlers : Connect(h)
    \/ \E h \in Handlers : Disconnect(h)
    \/ \E h \in Handlers : HandlerWake(h)
    \/ \E h \in Handlers : CancelRegister(h)

Spec == Init /\ [][Next]_vars

(* ------------------ the relay with a stocked directory ---------------- *)

\* the music directory holds one general file whenever it is listed
InitCast ==
    /\ Init
    /\ tracks = <<"g1">>
    /\ album_tracks = <<>>

\* every step of the relay but the one only an empty catalog reaches
NextCast ==
    \/ NextTrackCall
    \/ SpawnOk
    \/ SpawnFail
    \/ ReadChunk
    \/ ReadEmpty
    \/ ReadTimeout
    \/ TermWaitDone
    \/ StderrRead
    \/ BroadcastWake
    \/ BroadcastWrite
    \/ WriteOk
    \/ WriteFail
    \/ BroadcastEnd
    \/ EncoderWrite
    \/ EncoderExit
    \/ EncoderHang
    \/ Reap
    \/ \E h \in Handlers : Connect(h)
    \/ \E h \in Handlers : Disconnect(h)
    \/ \E h \in Handlers : HandlerWake(h)
    \/ \E h \in Handlers : CancelRegister(h)

SpecCast == InitCast /\ [][NextCast]_vars

\* a step of broadcast: the event loop resumes the playback task when the
\* lock is handed to it and when a client's write has completed or failed
CastStep ==
    \/ BroadcastWake
    \/ BroadcastWrite
    \/ WriteOk
    \/ WriteFail
    \/ BroadcastEnd

\* a selection made within the hour of the one before: the clock reads the
\* same hour and no reshuffle is due
NextTrackSoon == NextTrackCall /\ now' = now

\* the relay with a stocked directory during the first hour of its run
NextListen ==
    \/ NextTrackSoon
    \/ SpawnOk
    \/ SpawnFail
    \/ ReadChunk
    \/ ReadEmpty
    \/ ReadTimeout
    \/ TermWaitDone
    \/ StderrRead
    \/ BroadcastWake
    \/ BroadcastWrite
    \/ WriteOk
    \/ WriteFail
    \/ BroadcastEnd
    \/ EncoderWrite
    \/ EncoderExit
    \/ EncoderHang
    \/ Reap
    \/ \E h \in Handlers : Connect(h)
    \/ \E h \in Handlers : Disconnect(h)
    \/ \E h \in Handlers : HandlerWake(h)
    \/ \E h \in Handlers : CancelRegister(h)

SpecListen == InitCast /\ [][NextListen]_vars

\* the scheduling the event loop guarantees to the tasks at the lock, every
\* write of a chunk to a listener coming to an end
FairSpecListen ==
    /\ SpecListen
    /\ WF_vars(CastStep)
    /\ \A h \in Handlers : WF_vars(HandlerWake(h))

(* ----------------------- the relay being shut down -------------------- *)

\* the playback task is cancelled while it awaits an encoder read: the
\* CancelledError is no Exception, only the finally block runs
CancelRead ==
    /\ playPc = "read"
    /\ cancelled = "none"
    /\ cancelled' = "raised"
    /\ Finally("cancelled")
    /\ UNCHANGED <<apiVars, schedVars, clients, lockVars, playErr,
                   consecutive_empty_reads, chunk, castVars, procState,
                   exitStatus, returncode, pipe, hPc, nread, nplayed, sink,
                   regAt>>

\* the playback task is cancelled while broadcast waits for the lock: the
\* acquire gives its place up and the CancelledError reaches the finally
\* block of _play_track
CancelLockWait ==
    /\ playPc = "lock_wait"
    /\ cancelled = "none"
    /\ cancelled' = "raised"
    /\ waiters' = SelectSeq(waiters, LAMBDA t : t # PlayTask)
    /\ bcAtCall' = {}
    /\ Finally("cancelled")
    /\ UNCHANGED <<apiVars, schedVars, clients, locked, playErr,
                   consecutive_empty_reads, chunk, iterLeft, to_remove,
                   curClient, bcAtEntry, bcWrites, failedBefore, procState,
                   exitStatus, returncode, pipe, hPc, nread, nplayed, sink,
                   regAt>>

\* the playback task is cancelled while broadcast awaits a client's write:
\* the except clause of the write takes the CancelledError for the client's,
\* notes the client for removal and the loop goes on
CancelWrite ==
    /\ playPc = "write"
    /\ cancelled = "none"
    /\ cancelled' = "swallowed"
    /\ to_remove' = to_remove \cup {curClient}
    /\ playPc' = "bc_iter"
    /\ UNCHANGED <<apiVars, schedVars, clients, lockVars, playErr,
                   consecutive_empty_reads, chunk, iterLeft, curClient,
                   bcAtCall, bcAtEntry, bcWrites, failedBefore, procVars, hPc,
                   nread, nplayed, sink, regAt, outcome>>

\* the playback task is cancelled inside the finally block (at process.wait()
\* or at stderr.read()): the CancelledError leaves _play_track at once
CancelDrain ==
    /\ playPc \in {"term_wait", "stderr"}
    /\ cancelled = "none"
    /\ cancelled' = "raised"
    /\ playPc' = "dead"
    /\ playErr' = "CancelledError"
    /\ UNCHANGED <<apiVars, schedVars, clients, lockVars,
                   consecutive_empty_reads, chunk, castVars, procVars, hPc,
                   nread, nplayed, sink, regAt, outcome>>

\* the relay with a stocked directory, shut down at any moment
NextShutdown ==
    \/ NextCast
    \/ CancelRead
    \/ CancelLockWait
    \/ CancelWrite
    \/ CancelDrain

SpecShutdown == InitCast /\ [][NextShutdown]_vars

(* ------------------- the relay while nobody listens ------------------- *)

\* the playback task and the encoder; no client connects, so broadcast
\* finds the lock free and the listener set empty
NextPipe ==
    \/ NextTrackCall
    \/ NextTrackOverflow
    \/ SpawnOk
    \/ SpawnFail
    \/ ReadChunk
    \/ ReadEmpty
    \/ ReadTimeout
    \/ TermWaitDone
    \/ StderrRead
    \/ BroadcastEnd
    \/ EncoderWrite
    \/ EncoderExit
    \/ EncoderHang
    \/ Reap

SpecPipe == Init /\ [][NextPipe]_vars

\* a step of the playback task: the event loop resumes a task whose await
\* has completed, and wait_for's timer fires
PlaybackStep ==
    \/ NextTrackCall
    \/ NextTrackOverflow
    \/ SpawnOk
    \/ ReadChunk
    \/ ReadEmpty
    \/ ReadTimeout
    \/ TermWaitDone
    \/ StderrRead
    \/ BroadcastEnd

\* a running encoder that was sent SIGTERM exits; a wedged one does not
TerminatedExit == termSent /\ EncoderExit

\* an encoder does not run for ever: it comes to its end or it wedges
EncoderEnds == EncoderExit \/ EncoderHang

\* the scheduling the event loop and the operating system guarantee
FairSpecPipe ==
    /\ SpecPipe
    /\ WF_vars(PlaybackStep)
    /\ WF_vars(Reap)
    /\ WF_vars(TerminatedExit)
    /\ WF_vars(EncoderEnds)

(* --------------- register_client / unregister_client alone ------------ *)

\* objects handed to register_client: connections, or any other sink
Listeners == Handlers \cup {"l3"}

\* any listener set, the lock free, no task inside the RadioStream
InitApi ==
    /\ InitRadio
    /\ clients \in SUBSET Listeners

apiRest == <<shutVars, schedVars, lockVars, playPc, playErr, consecutive_empty_reads,
             chunk, castVars, procVars, hPc, nread, nplayed, sink, regAt,
             outcome>>

\* await register_client(l), the lock being free
ApiRegister(l) ==
    /\ LockFree
    /\ apiPrev' = clients
    /\ clients' = RegisterOp(clients, l)
    /\ apiOp' = <<"register", l>>
    /\ UNCHANGED apiRest

\* await unregister_client(l), the lock being free
ApiUnregister(l) ==
    /\ LockFree
    /\ clients' = UnregisterOp(clients, l)
    /\ apiOp' = IF apiOp = <<"register", l>>
                  THEN <<"register_unregister", l>>
                  ELSE <<"unregister", l>>
    /\ apiPrev' = IF apiOp = <<"register", l>> THEN apiPrev ELSE clients
    /\ UNCHANGED apiRest

NextApi ==
    \/ \E l \in Listeners : ApiRegister(l)
    \/ \E l \in Listeners : ApiUnregister(l)

SpecApi == InitApi /\ [][NextApi]_vars

(* ---------------------- the reshuffle of the pools -------------------- *)

\* any catalog a load leaves, at any clock reading after the last shuffle
InitShuffle ==
    /\ \E ld \in Loads : tracks = ld[1] /\ album_tracks = ld[2]
    /\ now \in 0..MaxClock
    /\ last_shuffle_time \in 0..now
    /\ clients = {}
    /\ current_track = NoTrack
    /\ locked = FALSE
    /\ waiters = <<>>
    /\ playPc = "next_track"
    /\ playErr = "none"
    /\ depth = 0
    /\ draw = 0
    /\ consecutive_empty_reads = 0
    /\ chunk = 0
    /\ iterLeft = {}
    /\ to_remove = {}
    /\ curClient = "none"
    /\ procState = "none"
    /\ exitStatus = NoCode
    /\ returncode = NoCode
    /\ pipe = 0
    /\ termSent = FALSE
    /\ hPc = [h \in Handlers |-> "idle"]
    /\ nread = 0
    /\ nplayed = 0
    /\ sink = [h \in Handlers |-> <<>>]
    /\ regAt = [h \in Handlers |-> 0]
    /\ bcAtCall = {}
    /\ bcAtEntry = {}
    /\ bcWrites = ZeroWrites
    /\ failedBefore = {}
    /\ outcome = "none"
    /\ apiPrev = {}
    /\ apiOp = <<"none", "none">>
    /\ cancelled = "none"

shuffleRest == <<shutVars, clients, lockVars, current_track, depth, draw,
                 playPc, playErr, consecutive_empty_reads, chunk, castVars,
                 procVars, hPc, nread, nplayed, sink, regAt, outcome>>

\* _shuffle_tracks(): both lists are shuffled in place
ApiShuffle ==
    /\ apiPrev' = <<tracks, album_tracks, last_shuffle_time>>
    /\ apiOp' = <<"shuffle", "none">>
    /\ tracks' \in Shuffles(tracks)
    /\ album_tracks' \in Shuffles(album_tracks)
    /\ UNCHANGED <<now, last_shuffle_time>>
    /\ UNCHANGED shuffleRest

\* the reshuffle of _next_track, some hours after the last reading of the
\* clock: when the interval has passed, shuffle both lists and set
\* last_shuffle_time to a second reading of the clock
ApiReshuffle ==
    /\ \E e \in Elapsed :
        LET t1 == now + e
            due == ShuffleDue(t1)
        IN
        \E e2 \in IF due THEN {0, 1} ELSE {0},
           tr \in IF due THEN Shuffles(tracks) ELSE {tracks},
           al \in IF due THEN Shuffles(album_tracks) ELSE {album_tracks} :
            /\ t1 + e2 <= MaxClock
            /\ now' = t1 + e2
            /\ last_shuffle_time' = IF due THEN t1 + e2 ELSE last_shuffle_time
            /\ tracks' = tr
            /\ album_tracks' = al
            /\ apiOp' = <<IF due THEN "reshuffle" ELSE "not_due", "none">>
    /\ apiPrev' = <<tracks, album_tracks, last_shuffle_time>>
    /\ UNCHANGED shuffleRest

NextShuffle ==
    \/ ApiShuffle
    \/ ApiReshuffle

SpecShuffle == InitShuffle /\ [][NextShuffle]_vars

(* ------------------------------- claims ------------------------------- *)

\* broadcast's for loop is through and broadcast is about to return
PassDone == playPc = "bc_iter" /\ iterLeft = {}

\* the chunk was written once to every member of S and to nobody else
WrittenOnceTo(S) == \A h \in Handlers : bcWrites[h] = IF h \in S THEN 1 ELSE 0

\* C1 as stated: when broadcast(chunk) returns, the chunk has been written
\* exactly once to every listener that was in the listener set when the call
\* began, and to no other listener.
C1_WrittenToSetAtCall == PassDone => WrittenOnceTo(bcAtCall)

\* C1 amended: all through a broadcast, the chunk has been written exactly
\* once to every listener its loop has passed, these are listeners that were
\* in the set when broadcast acquired the lock, and the set is still that
\* set; so when it returns the chunk has been written exactly once to every
\* listener of the set at lock acquisition and to no listener registered or
\* unregistered after it.
C1_WrittenToSetAtEntry ==
    InBroadcast =>
        /\ clients = bcAtEntry
        /\ iterLeft \subseteq bcAtEntry
        /\ WrittenOnceTo(bcAtEntry \ iterLeft)

\* a broadcast that waited for the lock is through, it wrote to a listener
\* that registered while it waited, and another handler is waiting
C1_Witness ==
    /\ PassDone
    /\ bcAtEntry # bcAtCall
    /\ bcAtEntry # {}
    /\ \E h \in Handlers : hPc[h] \in {"reg_wait", "unreg_wait"}

\* the listeners no write to which has failed
Healthy == clients \ (to_remove \cup failedBefore)

\* the last chunk whose write to h is over, one way or the other
LastDone(h) ==
    IF \/ playPc = "lock_wait"
       \/ InBroadcast /\ (h \in iterLeft \/ (playPc = "write" /\ curClient = h))
      THEN nread - 1
      ELSE nread

\* the chunks first + 1 .. last in the order they were read
Run(first, last) == [i \in 1..(last - first) |-> first + i]

\* C2: a listener that is registered and whose writes have all succeeded has
\* been sent exactly the chunks read from the encoder since it called
\* register, each once, in the order they were read.
C2_SinkIsChunksSinceRegister ==
    \A h \in Healthy : sink[h] = Run(regAt[h], LastDone(h))

\* one listener was connected before the first chunk and has been sent the
\* first two chunks
C2_Witness ==
    \E h \in Healthy : regAt[h] = 0 /\ sink[h] = <<1, 2>>

\* C3: a listener whose write failed in a broadcast that has returned is not
\* in the listener set, and no later broadcast has it in its loop or writes
\* to it.
C3_FailedListenerGone ==
    \A h \in failedBefore :
        /\ h \notin clients
        /\ h \notin iterLeft
        /\ bcWrites[h] = 0

\* a later broadcast writes to a listener after another one failed
C3_Witness ==
    /\ failedBefore # {}
    /\ playPc = "write"
    /\ curClient \notin failedBefore

\* a step in which the awaited write ends without delivering the chunk
WriteFails == playPc = "write" /\ playPc' # "write" /\ sink'[curClient] = sink[curClient]

\* C4: a failed write is local to its listener.  The failing listener is
\* noted and the loop goes on with the listeners it has not yet passed;
\* while the loop runs the listener set does not change and no noted
\* listener is forgotten; the broadcast returns only when the chunk has been
\* written once to every listener it started with, it then removes the
\* noted listeners and no other, raises nothing, and the track plays on
\* unless the encoder's exit has been collected; a listener whose write
\* failed is sent nothing more.
C4_FailureIsLocal ==
    [][ /\ WriteFails =>
            /\ playPc' = "bc_iter"
            /\ locked'
            /\ iterLeft' = iterLeft
            /\ to_remove' = to_remove \cup {curClient}
        /\ (InBroadcast /\ to_remove # {}) =>
            IF InBroadcast'
              THEN clients' = clients /\ to_remove \subseteq to_remove'
              ELSE /\ WrittenOnceTo(bcAtEntry)
                   /\ clients' = bcAtEntry \ to_remove
                   /\ playErr' = "none"
                   /\ playPc' # "dead"
                   /\ returncode = NoCode => playPc' = "read"
        /\ \A h \in to_remove \cup failedBefore : Len(sink'[h]) <= Len(sink[h])
      ]_vars

\* two listeners were sent the first chunk, the write of the second chunk to
\* one of them failed, the other has been sent both
C4_Witness ==
    \E h \in Handlers, g \in Handlers :
        /\ PassDone
        /\ to_remove = {g}
        /\ sink[g] = <<1>>
        /\ sink[h] = <<1, 2>>

\* C5: the lock is held exactly while broadcast is in its loop, and a step
\* that changes the listener set is either the end of that loop, removing
\* the noted listeners, or a register or unregister made while no broadcast
\* is in its loop and the lock is not held.
C5_MutualExclusion ==
    /\ [](locked <=> InBroadcast)
    /\ [][ clients' # clients =>
            IF InBroadcast
              THEN ~InBroadcast' /\ clients' = clients \ to_remove
              ELSE ~locked
         ]_vars

\* broadcast is suspended on a listener's write while one handler waits to
\* register and another to unregister
C5_Witness ==
    /\ playPc = "write"
    /\ \E h \in Handlers : hPc[h] = "reg_wait"
    /\ \E h \in Handlers : hPc[h] = "unreg_wait"

\* the playback task is inside _play_track, past the spawn
InSession ==
    playPc \in {"read", "lock_wait", "bc_iter", "write", "term_wait", "stderr"}

\* C6: whatever the outcome of a track's pipeline (completed, stalled,
\* crashed, encoder not spawned), the playback loop is still running.
C6_LoopSurvivesEveryOutcome ==
    outcome \in {"completed", "stalled", "crashed", "spawn_failed"}
        => playPc # "dead"

\* C7: every pipeline session reaches Terminated (_play_track returns),
\* whether the encoder completes, stalls or crashes.
C7_SessionTerminates == InSession ~> ~InSession

\* C8: next() gives up on an empty catalog with CatalogEmptyError after a
\* fixed number of reloads; it never ends by exhausting the call stack.
C8_EmptyCatalogFailsCleanly ==
    /\ playErr # "RecursionError"
    /\ (playPc = "dead" /\ outcome = "none") => playErr = "CatalogEmptyError"

\* C9: when next() returns with a general pool that is not empty, the track
\* is a member of one of the two pools, and it is a member of the album pool
\* only if the draw was below the album bias and the album pool is not empty.
C9_TrackFromPools ==
    (playPc = "spawn" /\ tracks # <<>>) =>
        /\ current_track \in Range(tracks) \cup Range(album_tracks)
        /\ current_track \in Range(album_tracks) =>
                draw < ALBUM_TRACK_CHANCE /\ album_tracks # <<>>
        /\ current_track \in Range(tracks) =>
                draw >= ALBUM_TRACK_CHANCE \/ album_tracks = <<>>

\* next() returned an album track from a catalog with both pools stocked
C9_Witness ==
    /\ playPc = "spawn"
    /\ Len(tracks) = 2
    /\ current_track \in Range(album_tracks)

\* C10 as stated: after register(l) followed at once by unregister(l), the
\* listener set is what it was before register(l), for every l and every set.
C10_RegisterUnregisterRestores ==
    apiOp[1] = "register_unregister" => clients = apiPrev

\* C10 amended: after register(l) followed at once by unregister(l), the
\* listener set is what it was before register(l) without l; it is the set
\* it was exactly when l was not in it.
C10_RegisterUnregisterRemoves ==
    apiOp[1] = "register_unregister" =>
        /\ clients = apiPrev \ {apiOp[2]}
        /\ apiOp[2] \notin apiPrev => clients = apiPrev

\* register(l) then unregister(l) was run on a set that held others, not l
C10_Witness ==
    /\ apiOp[1] = "register_unregister"
    /\ apiOp[2] \notin apiPrev
    /\ apiPrev # {}

\* the playback task is in the finally block of _play_track, or has ended
Stopping == playPc \in {"term_wait", "stderr", "dead"}

\* C11: once the playback task has been cancelled at a suspension point of a
\* track's playback, playback has stopped (the task is terminating the
\* encoder or has ended, it reads and broadcasts no more), and when the task
\* has ended the encoder has exited or has been sent SIGTERM.
C11_ShutdownStopsPlayback ==
    cancelled # "none" =>
        /\ Stopping
        /\ playPc = "dead" => (procState \in {"none", "exited"} \/ termSent)

\* C12: a listener whose write failed during a broadcast, and a listener
\* whose handler was cancelled and has called unregister_client, is
\* eventually not in the listener set; a handler that has returned has left
\* no listener behind.
C12_DisconnectReachesUnregister ==
    /\ \A h \in Handlers :
            (h \in to_remove \/ hPc[h] = "unreg_wait") ~> (h \notin clients)
    /\ [](\A h \in Handlers : hPc[h] = "done" => h \notin clients)

\* one listener was removed after its write failed while its handler still
\* sleeps, the other by its cancelled handler
C12_Witness ==
    \E h \in Handlers, g \in Handlers :
        /\ failedBefore = {g}
        /\ hPc[g] = "sleep"
        /\ g \notin clients
        /\ hPc[h] = "done"
        /\ h \notin failedBefore
        /\ clients = {}
        /\ nread = MaxChunks

\* how many times each track is in the list s
BagOf(s) == [x \in Range(s) |-> Cardinality({i \in DOMAIN s : s[i] = x})]

\* C13: after a shuffle of the pools (_shuffle_tracks alone, or the reshuffle
\* of _next_track) the general pool holds the tracks it held, each as many
\* times, and so does the album pool, and last_shuffle_time is not less than
\* it was; after the reshuffle of _next_track it is the clock's reading.
C13_ReshufflePreservesPools ==
    apiOp[1] \in {"shuffle", "reshuffle", "not_due"} =>
        /\ BagOf(tracks) = BagOf(apiPrev[1])
        /\ BagOf(album_tracks) = BagOf(apiPrev[2])
        /\ last_shuffle_time >= apiPrev[3]
        /\ apiOp[1] = "reshuffle" => last_shuffle_time = now

\* a due reshuffle has changed the order of a general pool of two tracks
\* beside a stocked album pool, and has moved last_shuffle_time forward
C13_Witness ==
    /\ apiOp[1] = "reshuffle"
    /\ Len(tracks) = 2
    /\ tracks # apiPrev[1]
    /\ album_tracks # <<>>
    /\ last_shuffle_time > apiPrev[3]

\* C14: register(l) on a set that holds l leaves the set as it was, and
\* unregister(l) on a set that does not hold l leaves the set as it was;
\* either call returns (the call is recorded as made) whatever the set.
C14_RegisterUnregisterIdempotent ==
    /\ (apiOp[1] = "register" /\ apiOp[2] \in apiPrev) => clients = apiPrev
    /\ (apiOp[1] = "unregister" /\ apiOp[2] \notin apiPrev) => clients = apiPrev
    /\ apiOp[1] = "register" => apiOp[2] \in clients
    /\ apiOp[1] = "unregister" => apiOp[2] \notin clients

\* register(l) was just called on a set of two listeners that held l
C14_Witness ==
    /\ apiOp[1] = "register"
    /\ apiOp[2] \in apiPrev
    /\ Cardinality(apiPrev) = 2

\* the playback task is in the read loop of _play_track (Streaming)
Streaming == playPc \in {"read", "lock_wait", "bc_iter", "write"}

\* a step in which the awaited read ends: with a chunk, empty or timed out
ReadEnds ==
    /\ playPc = "read"
    /\ <<playPc, consecutive_empty_reads, nread>>'
            # <<playPc, consecutive_empty_reads, nread>>

\* C15: the stall counter stays between 0 and max_empty_reads; a read that
\* returns a chunk sets it to zero and hands that chunk to broadcast; an
\* empty or timed-out read adds one to it; nothing else changes it but the
\* start of the next track; the track is given up for stalling exactly when
\* the counter is at max_empty_reads, and the loop goes on below it.
C15_StallCounter ==
    /\ [](consecutive_empty_reads \in 0..max_empty_reads)
    /\ [](outcome = "stalled" => consecutive_empty_reads = max_empty_reads)
    /\ [](Streaming => consecutive_empty_reads < max_empty_reads)
    /\ []((InSession /\ consecutive_empty_reads = max_empty_reads) =>
                outcome = "stalled")
    /\ [][ /\ (ReadEnds /\ nread' # nread) =>
                /\ consecutive_empty_reads' = 0
                /\ nread' = nread + 1
                /\ chunk' = nread'
                /\ playPc' \in {"lock_wait", "bc_iter"}
           /\ (ReadEnds /\ nread' = nread) =>
                /\ consecutive_empty_reads' = consecutive_empty_reads + 1
                /\ chunk' = chunk
                /\ IF consecutive_empty_reads' = max_empty_reads
                     THEN outcome' = "stalled" /\ ~Streaming'
                     ELSE outcome' # "stalled"
           /\ (~ReadEnds /\ consecutive_empty_reads' # consecutive_empty_reads) =>
                    (playPc = "spawn" /\ consecutive_empty_reads' = 0)
       ]_vars

\* a track was given up for stalling after the encoder had produced a chunk:
\* the counter went back to zero and then up to max_empty_reads
C15_Witness ==
    /\ outcome = "stalled"
    /\ consecutive_empty_reads = max_empty_reads
    /\ nread >= 1
    /\ nplayed = 1

\* the playback task is in the finally block of _play_track (Draining)
Draining == playPc \in {"term_wait", "stderr"}

\* C16: Draining always completes: once the encoder has been asked to
\* terminate, _play_track returns (Terminated) whether or not the encoder
\* exits in response.
C16_DrainingCompletes == (Draining /\ termSent) ~> ~InSession

\* a step of _next_track that re-loads the catalog and calls itself
Reloads == playPc = "next_track" /\ depth' = depth + 1

\* C17: next() re-loads the catalog only when both pools are empty; with a
\* pool that is not empty it returns a track without loading.
C17_ReloadOnlyWhenBothEmpty ==
    [][Reloads => (tracks = <<>> /\ album_tracks = <<>>)]_vars

\* the encoder of the current session is alive
EncoderAlive == procState \in {"running", "hung"}

\* C18: at most one encoder is alive.  No encoder is alive between tracks;
\* the encoder of a track is spawned when none is alive; and _play_track
\* returns, on every path out of its loop (completed, stalled, crashed,
\* error while terminating), only when its encoder has exited.
C18_OneEncoderAtATime ==
    /\ [](playPc \in {"next_track", "spawn"} => ~EncoderAlive)
    /\ [][ /\ (playPc = "spawn" /\ playPc' # "spawn") =>
                (procState = "none" /\ (EncoderAlive' => nplayed' = nplayed + 1))
           /\ (InSession /\ ~InSession') => procState = "exited"
           /\ (EncoderAlive' /\ ~EncoderAlive) => playPc = "spawn"
       ]_vars

\* the encoder of the second track runs after the session of the first,
\* which produced nothing, has ended
C18_Witness ==
    /\ nplayed = 2
    /\ procState = "running"
    /\ nread = 0

\* the task the lock will be handed to next can take it
HeadCanRun ==
    \/ ENABLED BroadcastWake
    \/ \E h \in Handlers : ENABLED HandlerWake(h)

\* C19: the lock is free whenever the playback task is outside broadcast's
\* critical section (awaiting an encoder read, counting a timeout, draining,
\* between tracks, or ended); only then is the playback task not queued on
\* the lock, so a task queued there is a handler the lock has been handed
\* to, which needs no step of the encoder to register or unregister; and
\* the step that leaves broadcast's critical section releases the lock.
C19_StallNeverBlocksFanOut ==
    /\ [](~InBroadcast => ~locked)
    /\ []((~InBroadcast /\ waiters # <<>>) => HeadCanRun)
    /\ []((~InBroadcast /\ playPc # "lock_wait") => PlayTask \notin Range(waiters))
    /\ [][(InBroadcast /\ ~InBroadcast') => ~locked']_vars

\* the encoder is wedged and being drained while one listener is registered
\* and another waits at the lock, which is free
C19_Witness ==
    /\ playPc = "term_wait"
    /\ procState = "hung"
    /\ \E h \in Handlers : hPc[h] = "reg_wait"
    /\ \E h \in Handlers : hPc[h] = "sleep" /\ h \in clients

\* C20: when the read loop is left because the encoder's exit with code 0
\* has been collected (natural completion), no chunk the encoder wrote is
\* still in the pipe: all of its output has been read and broadcast.
C20_NoBufferedOutputDiscarded ==
    (outcome = "completed" /\ Draining) => pipe = 0

=============================================================================
